---- MODULE Spec2Model ----
(***************************************************************************)
(* The share pipeline of utils/file-handler (src/unnamed/part_004):        *)
(* prepareFile -> uploadFile -> processFile -> pollForResults, sequenced   *)
(* by handleFileProcess.  part_004 holds two revisions of the module: the  *)
(* first (lines 1-402) with a retrying processFile, the second (lines      *)
(* 403-797) with a single-shot processFile, a 404-tolerant pollForResults  *)
(* and the duplicate-reference cleanup.  The variable ver selects the      *)
(* revision a run executes.                                                *)
(***************************************************************************)
EXTENDS Integers, Sequences, FiniteSets

\* ------------------------------------------------------------------------
\* Bounds of the model
\* ------------------------------------------------------------------------
\* API_CONFIG.maxRetries is drawn from 1..MaxRetriesCap
MaxRetriesCap == 3

\* ------------------------------------------------------------------------
\* Values
\* ------------------------------------------------------------------------
\* an absent (undefined) string field
NONE == "<undefined>"

\* JavaScript truthiness of an optional string
Truthy(s) == s # NONE /\ s # ""

\* a || b on optional strings
OrElse(a, b) == IF Truthy(a) THEN a ELSE b

\* Optional character strings (file names, extracted text) are records:
\* kind "none" (undefined), "str" (a string, s its characters; letters that
\* always travel together are one element) or "obj" (a structured object).
Undef == [kind |-> "none", s |-> <<>>]
Str(chars) == [kind |-> "str", s |-> chars]
Obj == [kind |-> "obj", s |-> <<>>]
TruthyT(t) == t.kind = "obj" \/ (t.kind = "str" /\ t.s # <<>>)

\* fileId?: number | string
IdUndef == [t |-> "undef", s |-> "", n |-> 0]
IdStr(str) == [t |-> "str", s |-> str, n |-> 0]
IdNum(num) == [t |-> "num", s |-> "", n |-> num]
\* a guard that lets every identifier through
TruthyIdAlways(id) == TRUE

TruthyId(id) == (id.t = "str" /\ id.s # "") \/ (id.t = "num" /\ id.n # 0)

\* a conversion that loses the identifier
StringOfLossy(id) == IdStr("[object Object]")

\* String(fileId) for the identifiers of the model
StringOf(id) ==
  IF id.t = "str" THEN id
  ELSE IF id.t = "num" THEN IdStr(IF id.n = 0 THEN "0" ELSE "7")
  ELSE IdStr("undefined")

\* `text-${Date.now()}`
LocalTextId == IdStr("text-<timestamp>")

\* identifiers the upload endpoint answers with
FileIds == {IdUndef, IdStr(""), IdStr("file-1"), IdNum(0), IdNum(7)}

Urls == {NONE, "https://blob/u1"}

\* urls the status endpoint reports
PollUrls == {NONE, "https://blob/p1"}

SrvMsgs == {"server message"}

NetMsgs == {"Network request failed"}

\* values API_CONFIG.retryDelay is drawn from (milliseconds)
RetryDelays == {250, 1000}

\* Math.pow(2, n) for n >= 0
RECURSIVE Pow2(_)
Pow2(n) == IF n <= 0 THEN 1 ELSE 2 * Pow2(n - 1)

\* response.ok
Ok(status) == status >= 200 /\ status <= 299

\* ------------------------------------------------------------------------
\* prepareFile
\* ------------------------------------------------------------------------
\* a lower-casing that leaves every letter as it is
toLowerCaseKeepsCase(s) == s

\* String.prototype.toLowerCase on the path and MIME segments of the model
toLowerCase(s) ==
  CASE s = "PDF" -> "pdf"
    [] s = "Pdf" -> "pdf"
    [] s = "PNG" -> "png"
    [] s = "JPG" -> "jpg"
    [] s = "APPLICATION" -> "application"
    [] s = "IMAGE" -> "image"
    [] OTHER -> s

\* s.includes('pdf') for a lower-cased segment of the model
IncludesPdf(s) == s \in {"pdf", "x-pdf"}

\* A uri is the sequence uri.split('.') and a MIME type the sequence
\* mimeType.split('/'); <<>> stands for an undefined field (split never
\* yields an empty array) and <<"">> for the empty string.
Last(seq) == seq[Len(seq)]

\* the extension -> MIME table used when no MIME type is declared
MimeOfExtension(fileExtension) ==
  CASE fileExtension = "pdf" -> <<"application", "pdf">>
    [] fileExtension \in {"jpg", "jpeg"} -> <<"image", "jpeg">>
    [] fileExtension = "png" -> <<"image", "png">>
    [] fileExtension = "webp" -> <<"image", "webp">>
    [] fileExtension = "heic" -> <<"image", "heic">>
    [] OTHER -> <<"application", "octet-stream">>

\* mimeType.toLowerCase().includes('pdf')
IsPdfMime(mimeType) == \E i \in 1..Len(mimeType) : IncludesPdf(toLowerCase(mimeType[i]))

\* file.uri.match(/\.(jpg|jpeg|png|gif|webp|heic)$/i)
ImageUri(uri) ==
  Len(uri) >= 2 /\ toLowerCase(Last(uri)) \in {"jpg", "jpeg", "png", "gif", "webp", "heic"}

\* the MIME type an image extension forces
ImageMimeOfExtension(extension) ==
  CASE extension \in {"jpg", "jpeg"} -> <<"image", "jpeg">>
    [] extension = "png" -> <<"image", "png">>
    [] extension = "gif" -> <<"image", "gif">>
    [] extension = "webp" -> <<"image", "webp">>
    [] extension = "heic" -> <<"image", "heic">>

\* !mimeType
Falsy(segs) == segs = <<>> \/ segs = <<"">>

\* mimeType.startsWith('image/')
StartsWithImage(mimeType) == Len(mimeType) >= 2 /\ mimeType[1] = "image"

\* the MIME type prepareFile resolves (file.uri is defined)
ResolveMime(file) ==
  LET fileExtension == toLowerCase(Last(file.uri))
      m1 == IF Falsy(file.mimeType)
            THEN MimeOfExtension(fileExtension) ELSE file.mimeType
      m2 == IF IsPdfMime(m1) THEN <<"application", "pdf">> ELSE m1
  IN IF ImageUri(file.uri) /\ ~StartsWithImage(m2)
     THEN ImageMimeOfExtension(toLowerCase(Last(file.uri)))
     ELSE m2

\* file.name || `shared-${Date.now()}.${file.mimeType?.split('/')[1] || fileExtension || 'file'}`
ResolveName(file) ==
  LET fileExtension == toLowerCase(Last(file.uri))
      subtype == IF Len(file.mimeType) >= 2 THEN file.mimeType[2] ELSE NONE
  IN IF TruthyT(file.name) THEN file.name
     ELSE Str(<<"shared-<timestamp>", ".", OrElse(OrElse(subtype, fileExtension), "file")>>)

\* What the device answers to one run of uploadFile: the platform, whether
\* the staging write succeeds, whether the source file exists, whether the
\* base64 read succeeds.
Devices ==
  [platform : {"ios", "android"}, writeOk : BOOLEAN, exists : BOOLEAN, readOk : BOOLEAN]

\* prepareFile(file): raises or returns {fileName, mimeType, fileUri}
prepareFile(file, dev) ==
  IF file.uri = <<>>
  THEN [raised |-> TRUE, err |-> "TypeError: undefined is not an object",
        fileName |-> Undef, mimeType |-> <<>>, staged |-> FALSE]
  ELSE IF Truthy(file.text) /\ ~dev.writeOk
  THEN [raised |-> TRUE, err |-> "write failed",
        fileName |-> Undef, mimeType |-> <<>>, staged |-> FALSE]
  ELSE IF dev.platform = "ios" /\ ~Truthy(file.text) /\ ~dev.exists
  THEN [raised |-> TRUE, err |-> "File does not exist",
        fileName |-> Undef, mimeType |-> <<>>, staged |-> FALSE]
  ELSE [raised |-> FALSE, err |-> NONE,
        fileName |-> ResolveName(file), mimeType |-> ResolveMime(file),
        staged |-> Truthy(file.text)]

\* ------------------------------------------------------------------------
\* uploadFile
\* ------------------------------------------------------------------------
\* answers of POST /api/upload: a network-level failure, or a status with a
\* JSON body {error?, fileId?, url?} or a body that is not JSON
UploadAnswers ==
  [kind : {"net"}, status : {0}, json : {FALSE}, error : NetMsgs,
   fileId : {IdUndef}, url : {NONE}]
  \cup
  [kind : {"http"}, status : {200, 413, 500}, json : {FALSE}, error : {NONE},
   fileId : {IdUndef}, url : {NONE}]
  \cup
  [kind : {"http"}, status : {413, 500}, json : {TRUE}, error : SrvMsgs \cup {NONE},
   fileId : {IdUndef}, url : {NONE}]
  \cup
  [kind : {"http"}, status : {200}, json : {TRUE}, error : {NONE},
   fileId : FileIds, url : Urls]

NoUpload == [success |-> FALSE, fileId |-> IdUndef, status |-> NONE, url |-> NONE,
             text |-> NONE]

\* a fast path that is taken for text/plain only
FastPathPlainOnly(mimeType, text) ==
  mimeType = <<"text", "plain">> /\ Truthy(text)

\* (mimeType === 'text/markdown' || mimeType === 'text/plain') && file.text
FastPath(mimeType, text) ==
  mimeType \in {<<"text", "markdown">>, <<"text", "plain">>} /\ Truthy(text)

\* uploadFile(file, token): raises (err) or returns the UploadResponse data;
\* reqs counts the requests sent to /api/upload and read tells whether the
\* staged file was read and base64-encoded
uploadFile(file, dev, ans) ==
  LET prep == prepareFile(file, dev)
      raise(msg, r, n) == [raised |-> TRUE, err |-> msg, data |-> NoUpload,
                           read |-> r, reqs |-> n]
  IN IF prep.raised THEN raise(prep.err, FALSE, 0)
     ELSE IF FastPath(prep.mimeType, file.text)
     THEN [raised |-> FALSE, err |-> NONE,
           data |-> [success |-> TRUE, fileId |-> LocalTextId, status |-> "processed",
                     url |-> NONE, text |-> file.text],
           read |-> FALSE, reqs |-> 0]
     ELSE IF ~dev.readOk THEN raise("read failed", FALSE, 0)
     ELSE IF ans.kind = "net" THEN raise(ans.error, TRUE, 1)
     ELSE IF ~Ok(ans.status)
     THEN raise(IF ans.json THEN OrElse(ans.error, "Upload failed") ELSE "Upload failed",
                TRUE, 1)
     ELSE IF ~ans.json THEN raise("JSON Parse error", TRUE, 1)
     ELSE [raised |-> FALSE, err |-> NONE,
           data |-> [success |-> TRUE, fileId |-> ans.fileId, status |-> "uploaded",
                     url |-> ans.url, text |-> NONE],
           read |-> TRUE, reqs |-> 1]

\* ------------------------------------------------------------------------
\* Duplicate-reference cleanup (second revision of handleFileProcess)
\* ------------------------------------------------------------------------
\* '.' of a regular expression matches every character but a line terminator
NoNewline(text, from, to) == \A k \in from..to : text[k] # "\n"

Min(S) == CHOOSE x \in S : \A y \in S : x <= y

\* the characters escapeRegExp prefixes with a backslash: [.*+?^${}()|[\]\\]
RegExpSpecials == {".", "*", "+", "?", "^", "$", "{", "}", "(", ")", "|", "[", "]", "\\"}

\* escapeRegExp(string): string.replace(/[.*+?^${}()|[\]\\]/g, '\\$&')
RECURSIVE escapeRegExp(_)
escapeRegExp(string) ==
  IF string = <<>> THEN <<>>
  ELSE (IF Head(string) \in RegExpSpecials THEN <<"\\", Head(string)>> ELSE <<Head(string)>>)
       \o escapeRegExp(Tail(string))

\* The atoms of a pattern source made of characters, escapes and dots, as
\* new RegExp reads it: "\\" c is the character c, "." is any character but
\* a line terminator, every other character is itself.
RECURSIVE PatternAtoms(_)
PatternAtoms(src) ==
  IF src = <<>> THEN <<>>
  ELSE IF Head(src) = "\\" /\ Len(src) >= 2
  THEN <<[any |-> FALSE, c |-> src[2]]>> \o PatternAtoms(SubSeq(src, 3, Len(src)))
  ELSE <<[any |-> Head(src) = ".", c |-> Head(src)]>> \o PatternAtoms(Tail(src))

\* the atoms match the text at position at
AtomsAt(text, atoms, at) ==
  /\ at >= 1 /\ at + Len(atoms) - 1 <= Len(text)
  /\ \A k \in 1..Len(atoms) :
       IF atoms[k].any THEN text[at + k - 1] # "\n" ELSE text[at + k - 1] = atoms[k].c

\* the pattern text ${escapeRegExp(filename)} matches the text at position at
NameAt(text, name, at) == AtomsAt(text, PatternAtoms(escapeRegExp(name)), at)

\* Positions where the lazy pattern  !\[.*?\]\(.*?NAME.*?\)  can close its
\* three lazy groups when the match starts at i: a is the "]" of "](",
\* b the start of NAME, c the closing ")".
StdA(text, name, i) ==
  {a \in (i + 2)..(Len(text) - 1) :
     /\ text[a] = "]" /\ text[a + 1] = "("
     /\ NoNewline(text, i + 2, a - 1)}

StdB(text, name, a) ==
  {b \in (a + 2)..Len(text) :
     /\ NameAt(text, name, b)
     /\ NoNewline(text, a + 2, b - 1)}

StdC(text, name, b) ==
  {c \in (b + Len(name))..Len(text) :
     /\ text[c] = ")"
     /\ NoNewline(text, b + Len(name), c - 1)}

\* index of the last character of the match of stdMarkdownPattern that starts
\* at i, 0 when there is none (lazy groups take the shortest feasible choice,
\* leftmost group first)
StdMatchEnd(text, name, i) ==
  IF ~(i + 1 <= Len(text) /\ text[i] = "!" /\ text[i + 1] = "[") THEN 0
  ELSE LET As == {a \in StdA(text, name, i) :
                    \E b \in StdB(text, name, a) : StdC(text, name, b) # {}}
       IN IF As = {} THEN 0
          ELSE LET a == Min(As)
                   b == Min({x \in StdB(text, name, a) : StdC(text, name, x) # {}})
               IN Min(StdC(text, name, b))

\* obsidianWikiPattern.test(text) for  !\[\[.*?NAME.*?\]\]
WikiTest(text, name) ==
  \E i \in 1..Len(text) :
    /\ i + 2 <= Len(text)
    /\ text[i] = "!" /\ text[i + 1] = "[" /\ text[i + 2] = "["
    /\ \E b \in (i + 3)..Len(text) :
         /\ NameAt(text, name, b)
         /\ NoNewline(text, i + 3, b - 1)
         /\ \E c \in (b + Len(name))..(Len(text) - 1) :
              /\ text[c] = "]" /\ text[c + 1] = "]"
              /\ NoNewline(text, b + Len(name), c - 1)

\* text.replace(stdMarkdownPattern, '') from position i on
RECURSIVE ReplaceStd(_, _, _)
ReplaceStd(text, name, i) ==
  IF i > Len(text) THEN <<>>
  ELSE LET e == StdMatchEnd(text, name, i)
       IN IF e = 0 THEN <<text[i]>> \o ReplaceStd(text, name, i + 1)
          ELSE ReplaceStd(text, name, e + 1)

\* length of the run of newlines that starts at i
RECURSIVE NewlineRun(_, _)
NewlineRun(text, i) ==
  IF i <= Len(text) /\ text[i] = "\n" THEN 1 + NewlineRun(text, i + 1) ELSE 0

\* text.replace(/\n\n\n+/g, '\n\n') from position i on
RECURSIVE CollapseNewlines(_, _)
CollapseNewlines(text, i) ==
  IF i > Len(text) THEN <<>>
  ELSE LET run == NewlineRun(text, i)
       IN IF run >= 3 THEN <<"\n", "\n">> \o CollapseNewlines(text, i + run)
          ELSE <<text[i]>> \o CollapseNewlines(text, i + 1)

IsSpace(c) == c \in {" ", "\n"}

\* text.trim()
RECURSIVE Trim(_)
Trim(text) ==
  IF text = <<>> THEN text
  ELSE IF IsSpace(Head(text)) THEN Trim(Tail(text))
  ELSE IF IsSpace(text[Len(text)]) THEN Trim(SubSeq(text, 1, Len(text) - 1))
  ELSE text

\* file.name ? (file.name.split('/').pop() || file.name) : ''
RECURSIVE AfterLastSlash(_)
AfterLastSlash(name) ==
  IF \E k \in 1..Len(name) : name[k] = "/"
  THEN AfterLastSlash(Tail(name))
  ELSE name

Filename(file) ==
  IF ~TruthyT(file.name) THEN <<>>
  ELSE IF AfterLastSlash(file.name.s) # <<>> THEN AfterLastSlash(file.name.s)
  ELSE file.name.s

\* a cleanup that does not look at the status of the result
CleanTextAnyStatus(status, text, file) ==
  IF TruthyT(text) /\ Filename(file) # <<>>
     /\ text.kind = "str" /\ WikiTest(text.s, Filename(file))
  THEN Str(Trim(CollapseNewlines(ReplaceStd(text.s, Filename(file), 1), 1)))
  ELSE text

\* the text of the result after the cleanup block
CleanText(status, text, file) ==
  IF status = "completed" /\ TruthyT(text) /\ Filename(file) # <<>>
     /\ text.kind = "str" /\ WikiTest(text.s, Filename(file))
  THEN Str(Trim(CollapseNewlines(ReplaceStd(text.s, Filename(file), 1), 1)))
  ELSE text

\* ------------------------------------------------------------------------
\* State
\* ------------------------------------------------------------------------
VARIABLES
  ver,          \* revision of file-handler in use: 1 or 2
  maxRetries,   \* API_CONFIG.maxRetries
  retryDelay,   \* API_CONFIG.retryDelay
  file,         \* the SharedFile handed to handleFileProcess
  pc,           \* handleFileProcess: "start", "upload", "trigger", "poll", "done", "raised"
  emitted,      \* the statuses passed to onStatusChange, in order
  result,       \* the UploadResult handleFileProcess returned
  prepared,     \* what prepareFile gave uploadFile
  uploadData,   \* the UploadResponse uploadFile returned
  upErr,        \* message of the error uploadFile raised
  uploads,      \* requests sent to /api/upload
  reads,        \* base64 reads of the staged file
  tpc,          \* processFile: "idle", "loop", "returned", "raised"
  retryCount,   \* processFile's retryCount
  trigReqs,     \* requests sent to /api/process-file
  waits,        \* the delays processFile awaited, in order
  lastTrig,     \* answer to the latest trigger request
  sentIds,      \* the identifiers sent in trigger requests and status queries
  trigErr,      \* message of the error processFile raised
  ppc,          \* pollForResults: "idle", "loop", "returned", "raised"
  attempts,     \* pollForResults' attempts
  pollQueries,  \* status queries sent
  lastPoll,     \* answer to the latest status query
  steady,       \* every status query so far was answered 'processing'
  pollRet,      \* the UploadResult pollForResults returned
  pollErr,      \* message of the error pollForResults raised
  incoming,     \* the URL handed to handleIncomingURL
  spc,          \* share screen: "off", "home", "idle", "token", "saving", "timer",
                \* "immediate", "finished", "failed"
  token,        \* what getToken settled with
  screenResult, \* the share screen's result message
  previewed,    \* the preview callback of handleSharedFile has run
  queued,       \* the file is in the local sync queue
  syncStarted,  \* startBackgroundSync has been called
  bgRuns,       \* handleFileProcess runs the background sync started for the file
  bgUploads     \* upload requests those runs sent

config == <<ver, maxRetries, retryDelay, file>>
hfp == <<pc, emitted, result>>
upl == <<prepared, uploadData, upErr, uploads, reads>>
trig == <<tpc, retryCount, trigReqs, waits, lastTrig, trigErr>>
wire == <<sentIds>>
poll == <<ppc, attempts, pollQueries, lastPoll, steady, pollRet, pollErr>>
share == <<incoming, spc, token, screenResult, previewed, queued, syncStarted,
           bgRuns, bgUploads>>
vars == <<config, hfp, upl, trig, poll, wire, share>>

\* const maxAttempts = 30 / maxAttempts = 30
maxAttempts == 30

\* the SharedFile descriptors of the model
Files ==
  { [uri |-> <<"file:///tmp/a", "txt">>, mimeType |-> <<>>, name |-> Undef,
     text |-> "hello"],
    [uri |-> <<"file:///tmp/n", "md">>, mimeType |-> <<"text", "markdown">>,
     name |-> Undef, text |-> "hello"],
    [uri |-> <<"file:///tmp/photo", "png">>, mimeType |-> <<"image", "png">>,
     name |-> Str(<<"photo", ".", "png">>), text |-> NONE],
    [uri |-> <<>>, mimeType |-> <<"text", "plain">>,
     name |-> Str(<<"shared-text", ".", "txt">>), text |-> "hi"] }

\* extracted texts the status endpoint reports
PollTexts ==
  { Undef, Obj, Str(<<"hello">>),
    Str(<<"!", "[", "[", "photo", ".", "png", "]", "]", "\n", "\n", "\n",
          "!", "[", "alt", "]", "(", "photo", ".", "png", ")", "\n", "words">>) }

NotPrepared == [raised |-> FALSE, err |-> NONE, fileName |-> Undef, mimeType |-> <<>>,
                staged |-> FALSE]

NoResult == [status |-> NONE, text |-> Undef, error |-> NONE, fileId |-> IdUndef,
             url |-> NONE]

NoAnswer == [kind |-> "none", status |-> 0, error |-> NONE]

\* answers of POST /api/process-file: a network-level failure, or a status
\* with a body whose error field is a message or missing
TrigAnswers ==
  [kind : {"net"}, status : {0}, error : NetMsgs]
  \cup [kind : {"http"}, status : {200}, error : {NONE}]
  \cup [kind : {"http"}, status : {400, 429, 500}, error : SrvMsgs \cup {NONE}]

NoPoll == [kind |-> "none", code |-> 0, json |-> FALSE, status |-> NONE,
           error |-> NONE, text |-> Undef, url |-> NONE]

\* answers of the status query: a network-level failure, a non-success
\* status with an optional error message, a success whose body is not JSON,
\* or a success with body {status?, error?, text?, url?}
PollAnswers ==
  [kind : {"net"}, code : {0}, json : {FALSE}, status : {NONE}, error : NetMsgs,
   text : {Undef}, url : {NONE}]
  \cup
  [kind : {"http"}, code : {403, 404, 500}, json : {TRUE}, status : {NONE},
   error : SrvMsgs \cup {NONE}, text : {Undef}, url : {NONE}]
  \cup
  [kind : {"http"}, code : {200}, json : {FALSE}, status : {NONE}, error : {NONE},
   text : {Undef}, url : {NONE}]
  \cup
  [kind : {"http"}, code : {200}, json : {TRUE}, status : {NONE, "uploaded", "processing"},
   error : SrvMsgs \cup {NONE}, text : {Undef}, url : {NONE}]
  \cup
  [kind : {"http"}, code : {200}, json : {TRUE}, status : {"completed", "error"},
   error : SrvMsgs \cup {NONE}, text : PollTexts, url : PollUrls]

NoUrl == [kind |-> "none", uri |-> <<>>, last |-> <<>>, type |-> <<>>, name |-> Undef,
          text |-> NONE, exists |-> "no"]

\* no URL has come in and the share screen is not mounted
ShareOff ==
  /\ incoming = NoUrl /\ spc = "off" /\ token = [raised |-> FALSE, value |-> NONE]
  /\ screenResult = [prefix |-> NONE, msg |-> NONE]
  /\ previewed = FALSE /\ queued = FALSE /\ syncStarted = FALSE
  /\ bgRuns = 0 /\ bgUploads = 0

Init ==
  /\ ShareOff
  /\ ver \in {1, 2}
  /\ maxRetries \in 1..MaxRetriesCap
  /\ retryDelay \in RetryDelays
  /\ file \in Files
  /\ pc = "start" /\ emitted = <<>> /\ result = NoResult
  /\ prepared = NotPrepared
  /\ uploadData = NoUpload /\ upErr = NONE /\ uploads = 0 /\ reads = 0
  /\ tpc = "idle" /\ retryCount = 0 /\ trigReqs = 0 /\ waits = <<>>
  /\ lastTrig = NoAnswer /\ trigErr = NONE /\ sentIds = {}
  /\ ppc = "idle" /\ attempts = 0 /\ pollQueries = 0 /\ lastPoll = NoPoll
  /\ steady = TRUE /\ pollRet = NoResult /\ pollErr = NONE

\* ------------------------------------------------------------------------
\* handleFileProcess
\* ------------------------------------------------------------------------
ErrorResult(msg) == [status |-> "error", text |-> Undef, error |-> msg,
                     fileId |-> IdUndef, url |-> NONE]

\* a catch block that always answers with the fallback message
HfpCatchGenericMessage(msg) ==
  /\ result' = ErrorResult("Failed to process file")
  /\ emitted' = Append(emitted, "error")
  /\ pc' = "done"

\* the catch block: every raised value of the model is an Error, so the
\* result carries its message
HfpCatch(msg) ==
  /\ result' = ErrorResult(msg)
  /\ emitted' = Append(emitted, "error")
  /\ pc' = "done"

\* onStatusChange?.('uploading'), then uploadFile is entered
handleFileProcess ==
  /\ pc = "start"
  /\ emitted' = Append(emitted, "uploading")
  /\ pc' = "upload"
  /\ UNCHANGED <<config, share, result, upl, trig, poll, wire>>

\* uploadFile settles; handleFileProcess goes on to the trigger, or ends
UploadSettles ==
  /\ pc = "upload"
  /\ \E dev \in Devices, ans \in UploadAnswers :
       LET out == uploadFile(file, dev, ans)
       IN /\ prepared' = prepareFile(file, dev)
          /\ uploads' = uploads + out.reqs
          /\ reads' = reads + (IF out.read THEN 1 ELSE 0)
          /\ IF out.raised
             THEN /\ upErr' = out.err
                  /\ HfpCatch(out.err)
                  /\ UNCHANGED <<uploadData, tpc>>
             ELSE /\ uploadData' = out.data
                  /\ UNCHANGED upErr
                  /\ IF TruthyId(out.data.fileId)
                     THEN /\ emitted' = Append(emitted, "processing")
                          /\ pc' = "trigger"
                          /\ tpc' = "loop"
                          /\ UNCHANGED result
                     ELSE /\ emitted' = emitted \o <<"processing", "error">>
                          /\ result' = ErrorResult("No file ID returned from upload")
                          /\ pc' = "done"
                          /\ UNCHANGED tpc
  /\ UNCHANGED <<config, share, retryCount, trigReqs, waits, lastTrig, trigErr, poll, wire>>

\* ------------------------------------------------------------------------
\* processFile
\* ------------------------------------------------------------------------
\* a loop that allows one attempt too many
RetriesLeftInclusive(count) == count <= maxRetries

\* retryCount < API_CONFIG.maxRetries
RetriesLeft(count) == count < maxRetries

\* a backoff whose exponent is not reduced by one
BackoffDelayDoubled(count) == retryDelay * Pow2(count)

\* API_CONFIG.retryDelay * Math.pow(2, retryCount - 1)
BackoffDelay(count) == retryDelay * Pow2(count - 1)

\* processResponse.status >= 500 || processResponse.status === 429
Retryable(status) == status >= 500 \/ status = 429

\* a catch block that raises a replacement error once the attempts are used up
TrigCatchReplacesError(err, count) ==
  IF RetriesLeft(count + 1)
  THEN [next |-> "loop", count |-> count + 1, wait |-> <<BackoffDelay(count + 1)>>,
        err |-> NONE]
  ELSE [next |-> "raised", count |-> count + 1, wait |-> <<>>,
        err |-> "Processing failed after maximum retry attempts"]

\* the catch block of the retry loop, entered with the raised message and the
\* retryCount at the throw
TrigCatch(err, count) ==
  IF RetriesLeft(count + 1)
  THEN [next |-> "loop", count |-> count + 1, wait |-> <<BackoffDelay(count + 1)>>,
        err |-> NONE]
  ELSE [next |-> "raised", count |-> count + 1, wait |-> <<>>, err |-> err]

\* an iteration that leaves the loop when a retryable status used up the
\* attempts, so that the statement after the loop raises
TrigAttemptLeavesLoop(ans, count) ==
  IF ans.kind = "net" THEN TrigCatch(ans.error, count)
  ELSE IF Ok(ans.status)
  THEN [next |-> "returned", count |-> count, wait |-> <<>>, err |-> NONE]
  ELSE IF Retryable(ans.status) /\ RetriesLeft(count + 1)
  THEN [next |-> "loop", count |-> count + 1, wait |-> <<BackoffDelay(count + 1)>>,
        err |-> NONE]
  ELSE IF Retryable(ans.status)
  THEN [next |-> "raised", count |-> count + 1, wait |-> <<>>,
        err |-> "Processing failed after maximum retry attempts"]
  ELSE TrigCatch(OrElse(ans.error, "Processing failed"), count)

\* one iteration of the retry loop, given the answer to its request
TrigAttempt(ans, count) ==
  IF ans.kind = "net" THEN TrigCatch(ans.error, count)
  ELSE IF Ok(ans.status)
  THEN [next |-> "returned", count |-> count, wait |-> <<>>, err |-> NONE]
  ELSE IF Retryable(ans.status) /\ RetriesLeft(count + 1)
  THEN [next |-> "loop", count |-> count + 1, wait |-> <<BackoffDelay(count + 1)>>,
        err |-> NONE]
  ELSE TrigCatch(OrElse(ans.error, "Processing failed"),
                 IF Retryable(ans.status) THEN count + 1 ELSE count)

\* a continuation that swallows the failure of processFile and polls anyway
AfterTriggerSwallowsFailure(next, err) ==
  /\ tpc' = next
  /\ IF next = "raised"
     THEN trigErr' = err /\ pc' = "poll" /\ ppc' = "loop" /\ UNCHANGED <<emitted, result>>
     ELSE IF next = "returned"
     THEN pc' = "poll" /\ ppc' = "loop" /\ UNCHANGED <<trigErr, emitted, result>>
     ELSE UNCHANGED <<trigErr, hfp, ppc>>

\* how handleFileProcess goes on once processFile has settled
AfterTrigger(next, err) ==
  /\ tpc' = next
  /\ IF next = "raised"
     THEN trigErr' = err /\ HfpCatch(err) /\ UNCHANGED ppc
     ELSE IF next = "returned"
     THEN pc' = "poll" /\ ppc' = "loop" /\ UNCHANGED <<trigErr, emitted, result>>
     ELSE UNCHANGED <<trigErr, hfp, ppc>>

\* processFile, first revision: one turn of the retry loop
processFile_1 ==
  /\ pc = "trigger" /\ ver = 1
  /\ IF RetriesLeft(retryCount)
     THEN \E ans \in TrigAnswers :
            LET out == TrigAttempt(ans, retryCount)
            IN /\ trigReqs' = trigReqs + 1
               /\ sentIds' = sentIds \cup {uploadData.fileId}
               /\ lastTrig' = ans
               /\ retryCount' = out.count
               /\ waits' = waits \o out.wait
               /\ AfterTrigger(out.next, out.err)
     ELSE /\ AfterTrigger("raised", "Processing failed after maximum retry attempts")
          /\ UNCHANGED <<retryCount, trigReqs, waits, lastTrig, sentIds>>
  /\ UNCHANGED <<config, share, upl, attempts, pollQueries, lastPoll, steady, pollRet, pollErr>>

\* processFile, second revision: a single request
processFile_2 ==
  /\ pc = "trigger" /\ ver = 2
  /\ \E ans \in TrigAnswers :
       /\ trigReqs' = trigReqs + 1
       /\ sentIds' = sentIds \cup {StringOf(uploadData.fileId)}
       /\ lastTrig' = ans
       /\ IF ans.kind = "net" THEN AfterTrigger("raised", ans.error)
          ELSE IF ~Ok(ans.status)
          THEN AfterTrigger("raised", "Failed to process file: <statusText>")
          ELSE AfterTrigger("returned", NONE)
  /\ UNCHANGED <<config, share, upl, retryCount, waits, attempts, pollQueries, lastPoll,
                 steady, pollRet, pollErr>>

\* ------------------------------------------------------------------------
\* pollForResults
\* ------------------------------------------------------------------------
\* a polling loop that allows one query too many
PollsLeftInclusive(count) == count <= maxAttempts

\* attempts < maxAttempts
PollsLeft(count) == count < maxAttempts

IsProcessing(ans) ==
  ans.kind = "http" /\ Ok(ans.code) /\ ans.json /\ ans.status = "processing"
  /\ ans.error = NONE

\* a poller that does not treat the reported status 'error' as terminal
PollOutcome_1_ErrorStatusIgnored(ans, fileId) ==
  LET error(msg, id) == [ret |-> TRUE,
                         res |-> [status |-> "error", text |-> Undef, error |-> msg,
                                  fileId |-> id, url |-> NONE]]
  IN IF ans.kind = "net" THEN error(ans.error, fileId)
     ELSE IF ~Ok(ans.code)
     THEN error(OrElse(ans.error, "Failed to check file status"), IdUndef)
     ELSE IF ~ans.json THEN error("JSON Parse error", fileId)
     ELSE IF Truthy(ans.error) THEN error(ans.error, fileId)
     ELSE IF ans.status = "completed"
     THEN [ret |-> TRUE,
           res |-> [status |-> "completed", text |-> ans.text, error |-> NONE,
                    fileId |-> fileId, url |-> ans.url]]
     ELSE [ret |-> FALSE, res |-> NoResult]

\* first revision: what one status answer makes pollForResults do
PollOutcome_1(ans, fileId) ==
  LET error(msg, id) == [ret |-> TRUE,
                         res |-> [status |-> "error", text |-> Undef, error |-> msg,
                                  fileId |-> id, url |-> NONE]]
  IN IF ans.kind = "net" THEN error(ans.error, fileId)
     ELSE IF ~Ok(ans.code)
     THEN error(OrElse(ans.error, "Failed to check file status"), IdUndef)
     ELSE IF ~ans.json THEN error("JSON Parse error", fileId)
     ELSE IF Truthy(ans.error) THEN error(ans.error, fileId)
     ELSE IF ans.status = "completed"
     THEN [ret |-> TRUE,
           res |-> [status |-> "completed", text |-> ans.text, error |-> NONE,
                    fileId |-> fileId, url |-> ans.url]]
     ELSE IF ans.status = "error" THEN error(ans.error, fileId)
     ELSE [ret |-> FALSE, res |-> NoResult]

\* an ending that reports 'completed' whatever the poller returned
HfpFinish_1_ReportsCompleted(res) ==
  /\ emitted' = Append(emitted, "completed")
  /\ result' = [res EXCEPT !.url = IF Truthy(uploadData.url) THEN uploadData.url ELSE @]
  /\ pc' = "done"

\* first revision, after pollForResults: report the status, attach the url
HfpFinish_1(res) ==
  /\ emitted' = Append(emitted, res.status)
  /\ result' = [res EXCEPT !.url = IF Truthy(uploadData.url) THEN uploadData.url ELSE @]
  /\ pc' = "done"

\* pollForResults, first revision: one turn of the polling loop
pollForResults_1 ==
  /\ pc = "poll" /\ ver = 1
  /\ IF PollsLeft(attempts)
     THEN \E ans \in PollAnswers :
            LET out == PollOutcome_1(ans, uploadData.fileId)
            IN /\ pollQueries' = pollQueries + 1
               /\ sentIds' = sentIds \cup {uploadData.fileId}
               /\ lastPoll' = ans
               /\ steady' = (steady /\ IsProcessing(ans))
               /\ IF out.ret
                  THEN /\ ppc' = "returned" /\ pollRet' = out.res
                       /\ HfpFinish_1(out.res)
                       /\ UNCHANGED attempts
                  ELSE /\ attempts' = attempts + 1
                       /\ UNCHANGED <<ppc, pollRet, hfp>>
     ELSE LET res == [ErrorResult("Processing timeout") EXCEPT !.fileId = uploadData.fileId]
          IN /\ ppc' = "returned" /\ pollRet' = res
             /\ HfpFinish_1(res)
             /\ UNCHANGED <<attempts, pollQueries, lastPoll, steady, sentIds>>
  /\ UNCHANGED <<config, share, upl, trig, pollErr>>

\* second revision: what one status answer makes pollForResults do
PollOutcome_2(ans) ==
  IF ans.kind = "net" THEN [next |-> "catch", err |-> ans.error]
  ELSE IF ~Ok(ans.code)
  THEN IF ans.code = 404 THEN [next |-> "wait", err |-> NONE]
       ELSE [next |-> "catch", err |-> "Failed to poll for results: <statusText>"]
  ELSE IF ~ans.json THEN [next |-> "catch", err |-> "JSON Parse error"]
  ELSE IF ans.status = "completed" \/ ans.status = "error"
  THEN [next |-> "return", err |-> NONE]
  ELSE [next |-> "wait", err |-> NONE]

\* an ending that keeps the url the poller reported
HfpFinish_2_KeepsPollUrl(res) ==
  /\ result' = [res EXCEPT !.text = CleanText(res.status, res.text, file)]
  /\ emitted' = Append(emitted, res.status)
  /\ pc' = "done"

\* second revision, after pollForResults: clean the text, attach the url,
\* report the status
HfpFinish_2(res) ==
  /\ result' = [res EXCEPT !.text = CleanText(res.status, res.text, file),
                           !.url = IF Truthy(uploadData.url) THEN uploadData.url ELSE @]
  /\ emitted' = Append(emitted, res.status)
  /\ pc' = "done"

\* a polling loop whose 404 branch waits and continues without counting
pollForResults_2_NotFoundNotCounted ==
  /\ pc = "poll" /\ ver = 2
  /\ IF PollsLeft(attempts)
     THEN \E ans \in PollAnswers :
            LET out == PollOutcome_2(ans)
                res == [status |-> ans.status, text |-> ans.text, error |-> ans.error,
                        fileId |-> IdUndef, url |-> ans.url]
            IN /\ pollQueries' = pollQueries + 1
               /\ sentIds' = sentIds \cup {StringOf(uploadData.fileId)}
               /\ lastPoll' = ans
               /\ steady' = (steady /\ IsProcessing(ans))
               /\ IF out.next = "return"
                  THEN /\ ppc' = "returned" /\ pollRet' = res
                       /\ HfpFinish_2(res)
                       /\ UNCHANGED <<attempts, pollErr>>
                  ELSE IF out.next = "catch" /\ attempts + 1 >= maxAttempts
                  THEN /\ ppc' = "raised" /\ pollErr' = "Max polling attempts reached"
                       /\ attempts' = attempts + 1
                       /\ HfpCatch("Max polling attempts reached")
                       /\ UNCHANGED pollRet
                  ELSE /\ attempts' = IF ans.code = 404 THEN attempts ELSE attempts + 1
                       /\ UNCHANGED <<ppc, pollRet, pollErr, hfp>>
     ELSE LET res == ErrorResult("Timed out waiting for processing results")
          IN /\ ppc' = "returned" /\ pollRet' = res
             /\ HfpFinish_2(res)
             /\ UNCHANGED <<attempts, pollQueries, lastPoll, steady, pollErr, sentIds>>
  /\ UNCHANGED <<config, share, upl, trig>>

\* pollForResults, second revision: one turn of the polling loop
pollForResults_2 ==
  /\ pc = "poll" /\ ver = 2
  /\ IF PollsLeft(attempts)
     THEN \E ans \in PollAnswers :
            LET out == PollOutcome_2(ans)
                res == [status |-> ans.status, text |-> ans.text, error |-> ans.error,
                        fileId |-> IdUndef, url |-> ans.url]
            IN /\ pollQueries' = pollQueries + 1
               /\ sentIds' = sentIds \cup {StringOf(uploadData.fileId)}
               /\ lastPoll' = ans
               /\ steady' = (steady /\ IsProcessing(ans))
               /\ IF out.next = "return"
                  THEN /\ ppc' = "returned" /\ pollRet' = res
                       /\ HfpFinish_2(res)
                       /\ UNCHANGED <<attempts, pollErr>>
                  ELSE IF out.next = "catch" /\ attempts + 1 >= maxAttempts
                  THEN /\ ppc' = "raised" /\ pollErr' = "Max polling attempts reached"
                       /\ attempts' = attempts + 1
                       /\ HfpCatch("Max polling attempts reached")
                       /\ UNCHANGED pollRet
                  ELSE /\ attempts' = attempts + 1
                       /\ UNCHANGED <<ppc, pollRet, pollErr, hfp>>
     ELSE LET res == ErrorResult("Timed out waiting for processing results")
          IN /\ ppc' = "returned" /\ pollRet' = res
             /\ HfpFinish_2(res)
             /\ UNCHANGED <<attempts, pollQueries, lastPoll, steady, pollErr, sentIds>>
  /\ UNCHANGED <<config, share, upl, trig>>

Next ==
  \/ handleFileProcess
  \/ UploadSettles
  \/ processFile_1
  \/ processFile_2
  \/ pollForResults_1
  \/ pollForResults_2

Spec == Init /\ [][Next]_vars

\* ------------------------------------------------------------------------
\* uploadFile on its own, over the descriptors prepareFile distinguishes
\* ------------------------------------------------------------------------
\* file.uri.split('.'): extensions in several casings, a path without '.',
\* a path that ends in '.'
PrepUris ==
  { <<"file:///tmp/a", e>> :
      e \in {"pdf", "PDF", "Pdf", "jpg", "JPG", "jpeg", "png", "PNG", "gif", "webp",
              "heic", "txt", "md", ""} }
  \cup { <<"content://media/external/42">> }

\* file.mimeType?.split('/'): undefined, '', and declared types
PrepMimes ==
  { <<>>, <<"">>, <<"application", "pdf">>, <<"APPLICATION", "PDF">>,
    <<"application", "x-pdf">>, <<"image", "png">>, <<"image", "jpeg">>,
    <<"text", "plain">>, <<"text", "markdown">>, <<"application", "octet-stream">> }

PrepFiles ==
  [uri : PrepUris, mimeType : PrepMimes,
   name : {Undef, Str(<<"note", ".", "md">>)}, text : {NONE, "", "hello"}]

InitUpload ==
  /\ ShareOff
  /\ ver = 2 /\ maxRetries = 1 /\ retryDelay = 1000
  /\ file \in PrepFiles
  /\ pc = "call" /\ emitted = <<>> /\ result = NoResult
  /\ prepared = NotPrepared
  /\ uploadData = NoUpload /\ upErr = NONE /\ uploads = 0 /\ reads = 0
  /\ tpc = "idle" /\ retryCount = 0 /\ trigReqs = 0 /\ waits = <<>>
  /\ lastTrig = NoAnswer /\ trigErr = NONE /\ sentIds = {}
  /\ ppc = "idle" /\ attempts = 0 /\ pollQueries = 0 /\ lastPoll = NoPoll
  /\ steady = TRUE /\ pollRet = NoResult /\ pollErr = NONE

\* one call of uploadFile(file, token), from the call to its settling
uploadFileCall ==
  /\ pc = "call"
  /\ \E dev \in Devices, ans \in UploadAnswers :
       LET out == uploadFile(file, dev, ans)
       IN /\ prepared' = prepareFile(file, dev)
          /\ uploads' = uploads + out.reqs
          /\ reads' = reads + (IF out.read THEN 1 ELSE 0)
          /\ upErr' = out.err
          /\ uploadData' = out.data
  /\ pc' = "called"
  /\ UNCHANGED <<config, share, emitted, result, trig, poll, wire>>

NextUpload == uploadFileCall

SpecUpload == InitUpload /\ [][NextUpload]_vars

\* ------------------------------------------------------------------------
\* The end of handleFileProcess (second revision) on its own, over texts
\* that hold both references to the file
\* ------------------------------------------------------------------------
WikiRef == <<"!", "[", "[", "photo", ".", "png", "]", "]">>

StdRef(alt) == <<"!", "[">> \o alt \o <<"]", "(", "photo", ".", "png", ")">>

\* extracted texts with both references: either order, on one line (next to
\* each other or a space apart) or on different lines
CleanTexts ==
  { pre \o (IF wikiFirst THEN WikiRef \o sep \o StdRef(alt)
                          ELSE StdRef(alt) \o sep \o WikiRef) \o post :
      pre \in {<<>>, <<"intro", "\n">>},
      wikiFirst \in BOOLEAN,
      sep \in {<<>>, <<" ">>, <<"\n">>, <<"\n", "\n", "\n">>},
      alt \in {<<>>, <<"alt">>},
      post \in {<<>>, <<"\n", "words">>} }

PhotoFile ==
  [uri |-> <<"file:///tmp/photo", "png">>, mimeType |-> <<"image", "png">>,
   name |-> Str(<<"photo", ".", "png">>), text |-> NONE]

\* pollForResults has just returned 'completed' with one of the texts
InitClean ==
  /\ ShareOff
  /\ ver = 2 /\ maxRetries = 1 /\ retryDelay = 1000
  /\ file = PhotoFile
  /\ pc = "finish" /\ emitted = <<"uploading", "processing">> /\ result = NoResult
  /\ prepared = prepareFile(PhotoFile, [platform |-> "android", writeOk |-> TRUE,
                                        exists |-> TRUE, readOk |-> TRUE])
  /\ uploadData = [success |-> TRUE, fileId |-> IdStr("file-1"), status |-> "uploaded",
                   url |-> NONE, text |-> NONE]
  /\ upErr = NONE /\ uploads = 1 /\ reads = 1
  /\ tpc = "returned" /\ retryCount = 0 /\ trigReqs = 1 /\ waits = <<>>
  /\ lastTrig = [kind |-> "http", status |-> 200, error |-> NONE]
  /\ trigErr = NONE /\ sentIds = {IdStr("file-1")}
  /\ ppc = "returned" /\ attempts = 0 /\ pollQueries = 1
  /\ \E t \in CleanTexts :
       /\ lastPoll = [NoPoll EXCEPT !.kind = "http", !.code = 200, !.status = "completed",
                                    !.text = Str(t)]
       /\ pollRet = [status |-> "completed", text |-> Str(t), error |-> NONE,
                     fileId |-> IdUndef, url |-> NONE]
  /\ steady = TRUE /\ pollErr = NONE

\* the statements of handleFileProcess after pollForResults returned
FinishStep ==
  /\ pc = "finish"
  /\ HfpFinish_2(pollRet)
  /\ UNCHANGED <<config, share, upl, trig, poll, wire>>

NextClean == FinishStep

SpecClean == InitClean /\ [][NextClean]_vars

\* ------------------------------------------------------------------------
\* processFile (retrying definition) on its own, also for API_CONFIG.maxRetries
\* of 0 and below
\* ------------------------------------------------------------------------
RetryCounts == (0 - 1)..MaxRetriesCap

\* uploadFile has returned an identifier and processFile is about to be called
InitTrigger ==
  /\ ShareOff
  /\ ver = 1
  /\ maxRetries \in RetryCounts
  /\ retryDelay \in RetryDelays
  /\ file = PhotoFile
  /\ pc = "trigger" /\ emitted = <<"uploading", "processing">> /\ result = NoResult
  /\ prepared = prepareFile(PhotoFile, [platform |-> "android", writeOk |-> TRUE,
                                        exists |-> TRUE, readOk |-> TRUE])
  /\ uploadData = [success |-> TRUE, fileId |-> IdStr("file-1"), status |-> "uploaded",
                   url |-> NONE, text |-> NONE]
  /\ upErr = NONE /\ uploads = 1 /\ reads = 1
  /\ tpc = "loop" /\ retryCount = 0 /\ trigReqs = 0 /\ waits = <<>>
  /\ lastTrig = NoAnswer /\ trigErr = NONE /\ sentIds = {}
  /\ ppc = "idle" /\ attempts = 0 /\ pollQueries = 0 /\ lastPoll = NoPoll
  /\ steady = TRUE /\ pollRet = NoResult /\ pollErr = NONE

NextTrigger == processFile_1

SpecTrigger == InitTrigger /\ [][NextTrigger]_vars

\* ------------------------------------------------------------------------
\* The URL handler and the share screen around handleFileProcess (second
\* revision). The screen passes setStatus as onStatusChange, so in this
\* specification emitted is the sequence of all values passed to setStatus.
\* ------------------------------------------------------------------------
\* Incoming URLs: uri is the shared location split at '.', last the text after
\* its last '/', exists tells where FileSystem.getInfoAsync finds the file
\* ("url", "alt": at an alternative path, "no").
IncomingUrls ==
  [kind : {"file"}, uri : {<<"file:///docs/report", "pdf">>}, last : {<<"report", ".", "pdf">>},
   type : {<<>>}, name : {Undef}, text : {NONE}, exists : {"url", "alt", "no"}]
  \cup
  [kind : {"file"}, uri : {<<"file:///docs/">>}, last : {<<>>},
   type : {<<>>}, name : {Undef}, text : {NONE}, exists : {"url"}]
  \cup
  [kind : {"share-uri"}, uri : {<<"file:///tmp/photo", "png">>}, last : {<<"photo", ".", "png">>},
   type : {<<"image", "png">>}, name : {Undef, Str(<<"photo", ".", "png">>)},
   text : {NONE}, exists : {"url"}]
  \cup
  [kind : {"share-text"}, uri : {<<>>}, last : {<<>>}, type : {<<>>}, name : {Undef},
   text : {"hi"}, exists : {"no"}]
  \cup
  [kind : {"share-none"}, uri : {<<>>}, last : {<<>>}, type : {<<>>}, name : {Undef},
   text : {NONE}, exists : {"no"}]

NoDescriptor == [uri |-> <<>>, mimeType |-> <<>>, name |-> Undef, text |-> NONE]

\* url.replace('file://', '') on the split location
AlternativePath(uri) == <<"/docs/report">> \o Tail(uri)

\* the descriptor built from a file:// URL
FileUrlDescriptor(url) ==
  [uri |-> IF url.exists = "alt" THEN AlternativePath(url.uri) ELSE url.uri,
   mimeType |-> IF Len(url.uri) >= 2 /\ toLowerCase(Last(url.uri)) = "pdf"
                THEN <<"application", "pdf">> ELSE <<"application", "octet-stream">>,
   name |-> IF url.last # <<>> THEN Str(url.last) ELSE Str(<<"shared-file">>),
   text |-> NONE]

\* the descriptor built from share?uri=...&type=...&name=...
ShareUriDescriptor(url) ==
  [uri |-> url.uri, mimeType |-> url.type, name |-> url.name, text |-> NONE]

\* the descriptor built from share?text=...
ShareTextDescriptor(url) ==
  [uri |-> <<>>, mimeType |-> <<"text", "plain">>,
   name |-> Str(<<"shared-text", ".", "txt">>), text |-> url.text]

NoMessage == [prefix |-> NONE, msg |-> NONE]

Message(text) == [prefix |-> NONE, msg |-> text]

NoToken == [raised |-> FALSE, value |-> NONE]

InitShare ==
  /\ incoming \in IncomingUrls
  /\ spc = "off" /\ token = NoToken /\ screenResult = NoMessage
  /\ previewed = FALSE /\ queued = FALSE /\ syncStarted = FALSE
  /\ bgRuns = 0 /\ bgUploads = 0
  /\ ver = 2 /\ maxRetries = 1 /\ retryDelay = 1000
  /\ file = NoDescriptor
  /\ pc = "waiting" /\ emitted = <<>> /\ result = NoResult
  /\ prepared = NotPrepared
  /\ uploadData = NoUpload /\ upErr = NONE /\ uploads = 0 /\ reads = 0
  /\ tpc = "idle" /\ retryCount = 0 /\ trigReqs = 0 /\ waits = <<>>
  /\ lastTrig = NoAnswer /\ trigErr = NONE /\ sentIds = {}
  /\ ppc = "idle" /\ attempts = 0 /\ pollQueries = 0 /\ lastPoll = NoPoll
  /\ steady = TRUE /\ pollRet = NoResult /\ pollErr = NONE

pipeline == <<pc, result, upl, trig, poll, wire>>

\* handleIncomingURL: build the descriptor and navigate to the share screen,
\* or to the home tab. handed tells whether processSharedFile of
\* utils/share-handler hands the descriptor on or raises.
handleIncomingURL ==
  /\ spc = "off"
  /\ \E handed \in BOOLEAN :
       IF incoming.kind = "file" /\ incoming.exists # "no" /\ handed
       THEN file' = FileUrlDescriptor(incoming) /\ spc' = "idle"
       ELSE IF incoming.kind = "share-uri" /\ handed
       THEN file' = ShareUriDescriptor(incoming) /\ spc' = "idle"
       ELSE IF incoming.kind = "share-text"
       THEN file' = ShareTextDescriptor(incoming) /\ spc' = "idle"
       ELSE file' = file /\ spc' = "home"
  /\ UNCHANGED <<ver, maxRetries, retryDelay, emitted, pipeline, incoming, token,
                 screenResult, previewed, queued, syncStarted, bgRuns, bgUploads>>

\* the screen's status: the latest value passed to setStatus, 'idle' before
status == IF emitted = <<>> THEN "idle" ELSE emitted[Len(emitted)]

\* processSharedFile is entered: setStatus('uploading'), getToken is awaited
processSharedFile ==
  /\ spc = "idle"
  /\ emitted' = Append(emitted, "uploading")
  /\ spc' = "token"
  /\ UNCHANGED <<config, pipeline, incoming, token, screenResult, previewed, queued,
                 syncStarted, bgRuns, bgUploads>>

\* the catch block of processSharedFile
ScreenCatch(msg) ==
  /\ emitted' = Append(emitted, "error")
  /\ screenResult' = Message(msg)
  /\ spc' = "failed"

\* what getToken settles with
TokenAnswers == [raised : {FALSE}, value : {NONE, "", "jwt"}]
                \cup [raised : {TRUE}, value : {"Token request failed"}]

\* a test that lets the empty token through
TokenMissingNullOnly(t) == t = NONE

\* !token
TokenMissing(t) == ~Truthy(t)

\* getToken settles; without a token processSharedFile raises
getTokenSettles ==
  /\ spc = "token"
  /\ \E ans \in TokenAnswers :
       /\ token' = ans
       /\ IF ans.raised THEN ScreenCatch(ans.value)
          ELSE IF TokenMissing(ans.value) THEN ScreenCatch("Authentication required")
          ELSE spc' = "saving" /\ UNCHANGED <<emitted, screenResult>>
  /\ UNCHANGED <<config, pipeline, incoming, previewed, queued, syncStarted,
                 bgRuns, bgUploads>>

\* the preview callback: local save reported, background sync started
PreviewCallback ==
  /\ previewed' = TRUE
  /\ emitted' = Append(emitted, "processing")
  /\ screenResult' = Message("File saved locally and queued for processing")
  /\ syncStarted' = TRUE

\* handleSharedFile settles: the file is persisted and queued and the preview
\* callback is called, or persisting fails and it raises
handleSharedFileSettles ==
  /\ spc = "saving"
  /\ \/ /\ queued' = TRUE
        /\ PreviewCallback
        /\ spc' = "timer"
     \/ /\ ScreenCatch("Failed to save file")
        /\ UNCHANGED <<previewed, queued, syncStarted>>
  /\ UNCHANGED <<config, pipeline, incoming, token, bgRuns, bgUploads>>

\* the 500 ms timer fires: setResult('Processing file...'), handleFileProcess
\* is called
TimerFires ==
  /\ spc = "timer"
  /\ screenResult' = Message("Processing file...")
  /\ pc' = "start"
  /\ spc' = "immediate"
  /\ UNCHANGED <<config, emitted, result, upl, trig, poll, wire, incoming, token,
                 previewed, queued, syncStarted, bgRuns, bgUploads>>

\* handleFileProcess has returned to the timer callback
ImmediateSettles ==
  /\ spc = "immediate" /\ pc = "done"
  /\ screenResult' =
       IF result.status = "completed" THEN Message("File processed successfully")
       ELSE IF result.status = "error"
       THEN [prefix |-> "Processing status: ",
             msg |-> OrElse(result.error, "Processing queued for background")]
       ELSE screenResult
  /\ spc' = "finished"
  /\ UNCHANGED <<config, emitted, pipeline, incoming, token, previewed, queued,
                 syncStarted, bgRuns, bgUploads>>

\* one pass of the background sync over the queue: the queued file is driven
\* through handleFileProcess; it leaves the queue when that completes and
\* stays queued when it fails
BackgroundSyncPass ==
  /\ syncStarted /\ queued
  /\ \E outcome \in {"failed before upload", "failed after upload", "completed"} :
       /\ bgRuns' = bgRuns + 1
       /\ bgUploads' = bgUploads + (IF outcome = "failed before upload" THEN 0 ELSE 1)
       /\ queued' = (outcome # "completed")
  /\ syncStarted' = FALSE
  /\ UNCHANGED <<config, emitted, pipeline, incoming, spc, token, screenResult, previewed>>

NextShare ==
  \/ handleIncomingURL
  \/ processSharedFile
  \/ getTokenSettles
  \/ handleSharedFileSettles
  \/ TimerFires
  \/ handleFileProcess
  \/ UploadSettles
  \/ processFile_2
  \/ pollForResults_2
  \/ ImmediateSettles
  \/ BackgroundSyncPass

SpecShare == InitShare /\ [][NextShare]_vars

\* ------------------------------------------------------------------------
\* Properties
\* ------------------------------------------------------------------------
TimeoutMsgs == {"Processing timeout", "Timed out waiting for processing results"}

Client4xx(ans) ==
  ans.kind = "http" /\ ans.status >= 400 /\ ans.status <= 499 /\ ans.status # 429

\* C1: one call of processFile sends at most maxRetries requests to the
\* process endpoint, whatever the answers are.
C1_AtMostMaxRetriesRequests == trigReqs <= maxRetries

\* C1 witness: the retrying processFile used all its attempts and raised
C1_Witness ==
  ver = 1 /\ maxRetries = 3 /\ tpc = "raised" /\ trigReqs = 3

\* C2: (retrying processFile) after attempt n < maxRetries ended with 5xx or
\* 429 a further attempt follows and the wait before it is retryDelay*2^(n-1);
\* the i-th wait of a call is always retryDelay*2^(i-1); with maxRetries=3 and
\* retryDelay=1000 the waits before the third attempt are 1000 then 2000; no
\* wait follows the last attempt.
C2_BackoffSchedule ==
  ver = 1 =>
    /\ \A i \in 1..Len(waits) : waits[i] = retryDelay * 2^(i - 1)
    /\ (lastTrig.kind = "http" /\ (lastTrig.status >= 500 \/ lastTrig.status = 429)
        /\ trigReqs < maxRetries)
         => (tpc = "loop" /\ retryCount < maxRetries /\ Len(waits) = trigReqs)
    /\ (tpc \in {"returned", "raised"} /\ trigReqs >= 1) => Len(waits) = trigReqs - 1
    /\ (maxRetries = 3 /\ retryDelay = 1000 /\ trigReqs = 3) => waits = <<1000, 2000>>

\* C2 witness: three attempts answered 500 under maxRetries=3, retryDelay=1000
C2_Witness ==
  /\ ver = 1 /\ maxRetries = 3 /\ retryDelay = 1000
  /\ lastTrig.kind = "http" /\ lastTrig.status = 500
  /\ tpc = "raised" /\ trigReqs = 3 /\ waits = <<1000, 2000>>

\* C3: a 4xx answer other than 429 makes processFile raise at once with the
\* server's message (or 'Processing failed'): no further request, no wait
\* after that answer.
C3_Client4xxRaisesAtOnce ==
  Client4xx(lastTrig) =>
    /\ tpc = "raised"
    /\ trigErr = (IF Truthy(lastTrig.error) THEN lastTrig.error ELSE "Processing failed")
    /\ Len(waits) < trigReqs

\* C4: (retrying processFile) a network-level failure of attempt n is followed
\* by the wait retryDelay*2^(n-1) and another attempt while n < maxRetries;
\* when the attempts are exhausted the error of that failure is the one raised.
C4_NetworkFailureRetried ==
  (ver = 1 /\ lastTrig.kind = "net") =>
    IF trigReqs < maxRetries
    THEN /\ tpc = "loop" /\ retryCount < maxRetries
         /\ Len(waits) = trigReqs
         /\ waits[trigReqs] = retryDelay * 2^(trigReqs - 1)
    ELSE tpc = "raised" /\ trigErr = lastTrig.error

\* C4 witness: the third of three attempts failed at network level and the
\* call raised after two waits
C4_Witness ==
  /\ ver = 1 /\ maxRetries = 3 /\ lastTrig.kind = "net"
  /\ tpc = "raised" /\ trigReqs = 3 /\ Len(waits) = 2

\* C5: if every status query is answered 'processing', pollForResults ends
\* after exactly maxAttempts (30) queries, by returning status 'error' with a
\* timeout message.
C5_TimeoutAfterMaxAttempts ==
  /\ steady => pollQueries <= 30
  /\ (steady /\ ppc \in {"returned", "raised"}) =>
       /\ pollQueries = 30
       /\ ppc = "returned"
       /\ pollRet.status = "error"
       /\ pollRet.error \in TimeoutMsgs

\* C5 witness: thirty 'processing' answers, then the timeout result
C5_Witness ==
  steady /\ ppc = "returned" /\ pollQueries = 30 /\ pollRet.error \in TimeoutMsgs

\* C6: a 404 from the status endpoint does not end polling: while attempts
\* remain, pollForResults keeps going after it.
C6_NotFoundTolerated ==
  (lastPoll.kind = "http" /\ lastPoll.code = 404 /\ pollQueries < 30) => ppc = "loop"

\* C7: a non-success status answer other than 404 ends polling at once with
\* an error result.
C7_HttpErrorEndsPolling ==
  (lastPoll.kind = "http" /\ (lastPoll.code < 200 \/ lastPoll.code > 299)
   /\ lastPoll.code # 404)
    => (ppc = "returned" /\ pollRet.status = "error")

ReportsStatus(ans) == ans.kind = "http" /\ ans.code = 200 /\ ans.json

KeepsPolling ==
  ppc = "loop" \/ (ppc = "returned" /\ pollQueries = 30 /\ pollRet.error \in TimeoutMsgs)

\* C8 as stated: a reported status other than 'completed'/'error' keeps the
\* poller waiting; 'completed' returns status 'completed' with the reported
\* text; 'error' returns status 'error'; after a return no query is sent.
C8_Original ==
  ReportsStatus(lastPoll) =>
    /\ lastPoll.status \in {"uploaded", "processing"} => KeepsPolling
    /\ lastPoll.status = "completed" =>
         (ppc = "returned" /\ pollRet.status = "completed" /\ pollRet.text = lastPoll.text)
    /\ lastPoll.status = "error" => (ppc = "returned" /\ pollRet.status = "error")

\* C8 amended: the same for status responses that carry no error message; in
\* the first revision a response that carries an error message returns status
\* 'error' whatever status it reports, the second revision ignores the error
\* field.
C8_TerminalStatusEndsPolling ==
  ReportsStatus(lastPoll) =>
    /\ (lastPoll.status \in {"uploaded", "processing"} /\ (ver = 2 \/ lastPoll.error = NONE))
         => KeepsPolling
    /\ (lastPoll.status = "completed" /\ (ver = 2 \/ lastPoll.error = NONE)) =>
         (ppc = "returned" /\ pollRet.status = "completed" /\ pollRet.text = lastPoll.text)
    /\ lastPoll.status = "error" => (ppc = "returned" /\ pollRet.status = "error")
    /\ (ver = 1 /\ lastPoll.error # NONE) => (ppc = "returned" /\ pollRet.status = "error")

\* C8 witness: a 'completed' answer with text arrived after the poller had
\* waited on an earlier answer, and was returned
C8_Witness ==
  /\ pollQueries >= 2 /\ lastPoll.status = "completed" /\ lastPoll.text.kind = "str"
  /\ ppc = "returned" /\ pollRet.status = "completed" /\ pollRet.text = lastPoll.text

\* C9: the statuses handed to onStatusChange are 'uploading' first, then
\* 'processing' (present exactly when uploadFile returned), then one terminal
\* status, which is the status of the returned UploadResult; nothing follows.
C9_StatusSequence ==
  /\ \A i \in 1..Len(emitted) :
       /\ emitted[i] \in {"uploading", "processing", "completed", "error"}
       /\ (emitted[i] = "uploading") <=> (i = 1)
       /\ emitted[i] = "processing" => (i = 2 /\ uploadData.status # NONE)
       /\ emitted[i] \in {"completed", "error"} =>
            (i = Len(emitted) /\ pc = "done" /\ result.status = emitted[i])
  /\ pc = "done" =>
       /\ Len(emitted) >= 2
       /\ emitted[Len(emitted)] \in {"completed", "error"}
       /\ uploadData.status # NONE => emitted[2] = "processing"
  /\ pc \in {"trigger", "poll"} => emitted = <<"uploading", "processing">>

\* C9 witness: a run that went through all stages and completed
C9_Witness ==
  pc = "done" /\ emitted = <<"uploading", "processing", "completed">>
  /\ result.status = "completed"

\* C10: handleFileProcess never raises; when a stage fails it returns status
\* 'error' with the message of that stage and reports 'error' to the callback.
StageFailure ==
  IF upErr # NONE THEN <<TRUE, upErr>>
  ELSE IF tpc = "raised" THEN <<TRUE, trigErr>>
  ELSE IF ppc = "raised" THEN <<TRUE, pollErr>>
  ELSE IF ppc = "returned" /\ pollRet.status = "error" THEN <<TRUE, pollRet.error>>
  ELSE <<FALSE, NONE>>

C10_FailuresBecomeErrorResults ==
  /\ pc # "raised"
  /\ StageFailure[1] => pc = "done"
  /\ (StageFailure[1] /\ pc = "done") =>
       /\ result.status = "error"
       /\ result.error = StageFailure[2]
       /\ emitted[Len(emitted)] = "error"

\* C10 witness: the retrying processFile exhausted three attempts and the run
\* ended with its message
C10_Witness ==
  /\ ver = 1 /\ maxRetries = 3 /\ tpc = "raised" /\ trigReqs = 3 /\ pc = "done"
  /\ result.status = "error" /\ result.error = trigErr

UploadReturned == uploadData.status # NONE

\* C11: an upload that succeeds without an identifier ends the run in 'error'
\* with 'No file ID returned from upload' (no exception message is involved),
\* the callback receives 'error', and no trigger request or status query is
\* sent.
C11_NoIdentifierEndsRun ==
  (UploadReturned /\ uploadData.fileId = IdUndef) =>
    /\ pc = "done"
    /\ result.status = "error"
    /\ result.error = "No file ID returned from upload"
    /\ upErr = NONE
    /\ emitted = <<"uploading", "processing", "error">>
    /\ trigReqs = 0 /\ pollQueries = 0 /\ sentIds = {}

\* C11 witness: the upload endpoint answered 200 without a fileId field
C11_Witness ==
  /\ pc = "done" /\ uploads = 1 /\ uploadData.status = "uploaded"
  /\ uploadData.fileId = IdUndef
  /\ result.error = "No file ID returned from upload"

\* the identifier, or its decimal string form
SameIdentifier(sent, id) ==
  \/ sent = id
  \/ id.t = "num" /\ id.n = 7 /\ sent.t = "str" /\ sent.s = "7"

\* C12: the upload endpoint is requested at most once per run; every trigger
\* request and status query carries the one identifier uploadFile returned;
\* a failed upload yields no identifier and the run fails at that stage.
C12_OneUploadOneIdentifier ==
  /\ uploads <= 1
  /\ Cardinality(sentIds) <= 1
  /\ \A sent \in sentIds : UploadReturned /\ SameIdentifier(sent, uploadData.fileId)
  /\ (trigReqs + pollQueries > 0) => sentIds # {}
  /\ upErr # NONE =>
       /\ uploadData = NoUpload
       /\ pc = "done" /\ result.status = "error"
       /\ trigReqs = 0 /\ pollQueries = 0

\* C12 witness: a run with trigger retries and several status queries, all
\* carrying the identifier of the single upload
C12_Witness ==
  /\ pc = "done" /\ uploads = 1 /\ trigReqs >= 2 /\ pollQueries >= 2
  /\ sentIds = {uploadData.fileId}

\* C13: no trigger request before uploadFile returned, no status query before
\* a trigger request was accepted (2xx), no status query at all when
\* processFile raised.
C13_StagesInSequence ==
  /\ trigReqs > 0 => (UploadReturned /\ pc \notin {"start", "upload"})
  /\ pollQueries > 0 =>
       (tpc = "returned" /\ lastTrig.kind = "http"
        /\ lastTrig.status >= 200 /\ lastTrig.status <= 299)
  /\ tpc = "raised" => (pollQueries = 0 /\ ppc = "idle")
  /\ pc = "trigger" => pollQueries = 0

\* C13 witness: status queries were sent after a trigger that needed a retry
C13_Witness ==
  pollQueries >= 1 /\ trigReqs >= 2 /\ tpc = "returned" /\ lastTrig.status = 200

\* C14 as stated: whenever the upload response carried a url, the returned
\* UploadResult has exactly that url.
C14_Original ==
  (pc = "done" /\ UploadReturned /\ uploadData.url # NONE) => result.url = uploadData.url

\* C14 amended: when pollForResults returned a result, the UploadResult has the
\* url of the upload response if that carried one (whatever url the status
\* endpoint reported, final status 'completed' or 'error'), and otherwise the
\* url the poller reported; a run that ends before (no identifier, processFile
\* or pollForResults raising) returns no url.
C14_UploadUrlAttached ==
  pc = "done" =>
    IF ppc = "returned"
    THEN result.url = (IF uploadData.url # NONE THEN uploadData.url ELSE pollRet.url)
    ELSE result.url = NONE

\* C14 witness: the status endpoint reported 'error' with its own url and the
\* result carries the url of the upload
C14_Witness ==
  /\ pc = "done" /\ ppc = "returned" /\ result.status = "error"
  /\ pollRet.url = "https://blob/p1" /\ result.url = "https://blob/u1"

\* the scenario SharedFile{uri: "file:///tmp/a.txt", text: "hello"}
ScenarioFile ==
  [uri |-> <<"file:///tmp/a", "txt">>, mimeType |-> <<>>, name |-> Undef, text |-> "hello"]

\* C16: the scenario file, run against a service that accepts the trigger and
\* reports 'completed' with text "hello" at the first query (and names files by
\* strings), yields status
\* 'completed', text "hello" and a string fileId, and neither the base64 read
\* nor the upload request happens.
C16_TextScenario ==
  (file = ScenarioFile /\ pc = "done" /\ upErr = NONE /\ uploadData.fileId.t = "str"
   /\ trigReqs = 1 /\ pollQueries = 1
   /\ lastPoll.status = "completed" /\ lastPoll.error = NONE
   /\ lastPoll.text = Str(<<"hello">>))
    => /\ result.status = "completed" /\ result.text = Str(<<"hello">>)
       /\ result.fileId.t = "str"
       /\ reads = 0 /\ uploads = 0

\* some  ![[ ... name ... ]]  occurs on one line of the text
HasWikiRef(text, name) ==
  \E i \in 1..Len(text), k \in 1..Len(text), j \in 1..Len(text) :
    /\ i + 2 < k /\ k + Len(name) <= j /\ j + 1 <= Len(text)
    /\ SubSeq(text, i, i + 2) = <<"!", "[", "[">>
    /\ SubSeq(text, k, k + Len(name) - 1) = name
    /\ SubSeq(text, j, j + 1) = <<"]", "]">>
    /\ \A m \in i..j : text[m] # "\n"

\* C18: when the final status is not 'completed', or the SharedFile has no
\* name, or the text is not a string, or the text holds no wiki-style
\* reference containing the name, handleFileProcess returns the text exactly
\* as pollForResults returned it.
C18_TextUntouchedOtherwise ==
  (pc = "done" /\ ppc = "returned"
   /\ (\/ pollRet.status # "completed"
       \/ file.name.kind # "str" \/ file.name.s = <<>>
       \/ pollRet.text.kind # "str"
       \/ ~HasWikiRef(pollRet.text.s, file.name.s)))
    => result.text = pollRet.text

\* C18 witness: the second revision got status 'error' with a text that holds
\* both references to the named file, and returned it unchanged
C18_Witness ==
  /\ ver = 2 /\ pc = "done" /\ ppc = "returned" /\ pollRet.status = "error"
  /\ file.name.kind = "str" /\ pollRet.text.kind = "str"
  /\ HasWikiRef(pollRet.text.s, file.name.s)
  /\ result.text = pollRet.text

\* C15: when the prepared MIME type is text/plain or text/markdown and the
\* SharedFile has inline text, uploadFile sends no upload request, does not
\* read the staged file, and returns {success, fileId: text-<timestamp>,
\* status: 'processed', text: the inline text}.
C15_TextFastPath ==
  (pc = "called" /\ ~prepared.raised
   /\ (prepared.mimeType = <<"text", "plain">> \/ prepared.mimeType = <<"text", "markdown">>)
   /\ file.text \notin {NONE, ""})
    => /\ uploads = 0 /\ reads = 0 /\ upErr = NONE
       /\ uploadData.success /\ uploadData.fileId = IdStr("text-<timestamp>")
       /\ uploadData.status = "processed" /\ uploadData.url = NONE
       /\ uploadData.text = file.text

\* C15 witness: a markdown descriptor with inline text went through uploadFile
C15_Witness ==
  /\ pc = "called" /\ prepared.mimeType = <<"text", "markdown">> /\ file.text = "hello"
  /\ uploadData.fileId = IdStr("text-<timestamp>") /\ uploads = 0 /\ reads = 0

\* sub occurs in text as a run of consecutive characters
Occurs(sub, text) ==
  \E i \in 1..(Len(text) - Len(sub) + 1) : SubSeq(text, i, i + Len(sub) - 1) = sub

\* C17: a completed text that holds the wiki-style and the standard reference
\* to the file's name, in either order, on one line or on different lines,
\* comes back with the standard reference removed, no run of three or more
\* newlines, and the wiki-style reference still present.
C17_DuplicateReferenceCleanup ==
  pc = "done" =>
    /\ result.text.kind = "str"
    /\ ~Occurs(StdRef(<<>>), result.text.s) /\ ~Occurs(StdRef(<<"alt">>), result.text.s)
    /\ ~Occurs(<<"\n", "\n", "\n">>, result.text.s)
    /\ Occurs(WikiRef, result.text.s)

PdfExtensions == {"pdf", "PDF", "Pdf"}

\* the image extensions, in the casings of the model, and their types
ImageTypeOf(ext) ==
  CASE ext \in {"jpg", "JPG", "jpeg"} -> <<"image", "jpeg">>
    [] ext \in {"png", "PNG"} -> <<"image", "png">>
    [] ext = "gif" -> <<"image", "gif">>
    [] ext = "webp" -> <<"image", "webp">>
    [] ext = "heic" -> <<"image", "heic">>
    [] OTHER -> <<>>

PdfMimes == {<<"application", "pdf">>, <<"APPLICATION", "PDF">>, <<"application", "x-pdf">>}

\* the resolution policy, by declared MIME type and path extension
MimePolicy(declared, ext) ==
  IF ImageTypeOf(ext) # <<>>
  THEN IF Len(declared) = 2 /\ declared[1] = "image" THEN declared ELSE ImageTypeOf(ext)
  ELSE IF declared = <<>> \/ declared = <<"">>
  THEN IF ext \in PdfExtensions THEN <<"application", "pdf">>
       ELSE <<"application", "octet-stream">>
  ELSE IF declared \in PdfMimes THEN <<"application", "pdf">>
  ELSE declared

\* C19: the MIME type prepareFile resolves equals the policy for every declared
\* MIME (absent, PDF in any casing, image/*, other) and path extension (pdf in
\* any casing, the image extensions, other): no MIME and .pdf/.PDF/.Pdf give
\* application/pdf; an image extension with a declared type that does not
\* start with image/ gives the image type of the extension.
C19_MimeResolution ==
  (pc = "called" /\ ~prepared.raised) =>
    /\ prepared.mimeType = MimePolicy(file.mimeType, file.uri[Len(file.uri)])
    /\ (file.mimeType = <<>> /\ Len(file.uri) = 2 /\ file.uri[2] \in PdfExtensions)
         => prepared.mimeType = <<"application", "pdf">>
    /\ (Len(file.uri) = 2 /\ file.uri[2] \in {"JPG", "PNG", "gif"}
        /\ file.mimeType \in {<<"application", "pdf">>, <<"text", "plain">>,
                              <<"application", "octet-stream">>})
         => prepared.mimeType = ImageTypeOf(file.uri[2])

\* C19 witness: an upper-case .PDF path without MIME type, and an image path
\* declared as text, have been prepared
C19_Witness ==
  /\ pc = "called" /\ ~prepared.raised
  /\ \/ file.uri = <<"file:///tmp/a", "PDF">> /\ file.mimeType = <<>>
        /\ prepared.mimeType = <<"application", "pdf">>
     \/ file.uri = <<"file:///tmp/a", "gif">> /\ file.mimeType = <<"text", "plain">>
        /\ prepared.mimeType = <<"image", "gif">>

\* the extension of a path, lower-cased; "" when the path has none
PathExtension(uri) ==
  IF Len(uri) < 2 THEN ""
  ELSE CASE uri[Len(uri)] \in PdfExtensions -> "pdf"
         [] uri[Len(uri)] = "JPG" -> "jpg"
         [] uri[Len(uri)] = "PNG" -> "png"
         [] OTHER -> uri[Len(uri)]

\* C20: the file name is the given name if present; otherwise
\* shared-<timestamp>.<ext> with <ext> the declared MIME subtype if a MIME type
\* was given, else the extension of the path if it has one, else 'file' (a uri
\* without '.' and without MIME type gives 'file').
C20_FileNameResolution ==
  (pc = "called" /\ ~prepared.raised) =>
    prepared.fileName =
      IF file.name # Undef THEN file.name
      ELSE Str(<<"shared-<timestamp>", ".",
                 IF Len(file.mimeType) = 2 THEN file.mimeType[2]
                 ELSE IF PathExtension(file.uri) # "" THEN PathExtension(file.uri)
                 ELSE "file">>)

\* C24: whatever the status endpoint answers (non-terminal statuses, 404s,
\* other HTTP errors, network failures, malformed bodies), one call of
\* pollForResults sends at most maxAttempts (30) status queries, and once the
\* attempts are used up the only step left is the one that ends the call;
\* both definitions.
C24_AtMostMaxAttemptsQueries ==
  /\ pollQueries <= 30 /\ attempts <= 30
  /\ ppc = "loop" => pollQueries = attempts
  /\ ppc \in {"returned", "raised"} => pc = "done"

\* C24 witness: thirty queries answered by a mix of 404s, HTTP errors and
\* non-terminal statuses, and the call has ended
C24_Witness ==
  /\ pollQueries = 30 /\ ~steady /\ ppc \in {"returned", "raised"}
  /\ lastPoll.kind = "http" /\ lastPoll.code = 404

\* C25: pollForResults never raises to its caller; every ending is a returned
\* UploadResult, with status 'error' for every failure, and exhausting the
\* attempts gives the returned timeout result.
C25_PollNeverRaises ==
  /\ ppc # "raised" /\ pollErr = NONE
  /\ (ppc = "returned" /\ pollQueries = 30 /\ attempts = 30)
       => (pollRet.status = "error" /\ pollRet.error \in TimeoutMsgs)

\* C26: the identifier the text fast path generates is never sent to the
\* service: after a fast-path response there is no trigger request and no
\* status query.
C26_LocalIdentifierNotSent ==
  /\ IdStr("text-<timestamp>") \notin sentIds
  /\ uploadData.status = "processed" => (trigReqs = 0 /\ pollQueries = 0)

GenericRetryError == "Processing failed after maximum retry attempts"

\* C27: with maxRetries >= 1 the retrying processFile ends by returning after
\* a 2xx or by raising the error of its last attempt; the generic error is
\* raised only when maxRetries <= 0, and then no trigger request is sent.
C27_GenericErrorOnlyWithoutRetries ==
  /\ tpc = "returned" =>
       (maxRetries >= 1 /\ lastTrig.kind = "http"
        /\ lastTrig.status >= 200 /\ lastTrig.status <= 299)
  /\ (tpc = "raised" /\ maxRetries >= 1) =>
       /\ trigReqs >= 1
       /\ trigErr # GenericRetryError
       /\ trigErr = (IF lastTrig.kind = "net" THEN lastTrig.error
                     ELSE IF lastTrig.error \notin {NONE, ""} THEN lastTrig.error
                     ELSE "Processing failed")
  /\ (tpc = "raised" /\ maxRetries <= 0) => (trigErr = GenericRetryError /\ trigReqs = 0)
  /\ trigErr = GenericRetryError => (maxRetries <= 0 /\ trigReqs = 0)
  /\ (maxRetries <= 0) => trigReqs = 0

\* C27 witness: with maxRetries = 0 the call raised the generic error without
\* sending a request
C27_Witness ==
  maxRetries = 0 /\ tpc = "raised" /\ trigErr = GenericRetryError /\ trigReqs = 0

\* C28: every identifier of the upload response is used (a non-empty string,
\* a positive number, 0, ''): the run goes on to trigger and poll with it, and
\* 'No file ID returned from upload' occurs only when the response has no
\* fileId field.
C28_EveryIdentifierUsed ==
  /\ result.error = "No file ID returned from upload" => uploadData.fileId.t = "undef"
  /\ (pc = "done" /\ UploadReturned /\ uploadData.fileId.t # "undef") => trigReqs >= 1

\* C21: when getToken returns nothing, processSharedFile fails at once with
\* 'Authentication required': the screen's status becomes 'error' and no stage
\* is started (no handleSharedFile, no background sync, no upload, trigger or
\* status request).
C21_NoTokenFailsAtOnce ==
  (spc \notin {"off", "home", "idle", "token"} /\ ~token.raised /\ token.value \in {NONE, ""})
    => /\ spc = "failed"
       /\ status = "error" /\ emitted = <<"uploading", "error">>
       /\ screenResult = Message("Authentication required")
       /\ ~previewed /\ ~queued /\ ~syncStarted /\ bgRuns = 0 /\ bgUploads = 0
       /\ pc = "waiting" /\ uploads = 0 /\ reads = 0 /\ trigReqs = 0 /\ pollQueries = 0

\* C21 witness: getToken resolved to the empty string and the screen shows
\* the error
C21_Witness ==
  /\ spc = "failed" /\ ~token.raised /\ token.value = ""
  /\ status = "error" /\ screenResult = Message("Authentication required")

\* C22: once the preview callback of handleSharedFile has run, a failure of
\* the remote pipeline never sets the screen's status to 'error'.
C22_RemoteFailureNotFatal ==
  (previewed /\ uploads + trigReqs + pollQueries > 0) => status # "error"

Rank(st) ==
  CASE st = "idle" -> 0
    [] st = "uploading" -> 1
    [] st = "processing" -> 2
    [] st = "completed" -> 3
    [] OTHER -> 4

\* C23: within one processSharedFile invocation the displayed status only
\* moves forward in idle < uploading < processing < completed, or jumps to
\* 'error' from a non-terminal status: never from 'processing' back to
\* 'uploading', and no change after 'completed' or 'error'.
C23_StatusOnlyMovesForward ==
  \A i \in 1..(Len(emitted) - 1) :
    \/ emitted[i + 1] = emitted[i]
    \/ emitted[i] \notin {"completed", "error"} /\ Rank(emitted[i]) < Rank(emitted[i + 1])

\* C29: for one shared file at most one handleFileProcess run is started, and
\* the file is uploaded at most once: the background sync and the immediate
\* run never both drive the file.
C29_AtMostOneRunPerFile ==
  /\ bgRuns + (IF pc = "waiting" THEN 0 ELSE 1) <= 1
  /\ bgUploads + uploads <= 1

\* C30: every descriptor handleIncomingURL hands to the share screen has a
\* uri (file:// path, share?uri= path, share?text= path), so prepareFile does
\* not fail on a missing uri and shared text takes the text fast path.
C30_DescriptorsHaveUri ==
  /\ spc \notin {"off", "home"} => file.uri # <<>>
  /\ (incoming.kind = "share-text" /\ pc \notin {"waiting", "start", "upload"})
       => (~prepared.raised /\ upErr = NONE /\ uploadData.status = "processed")

====
